---- MODULE Spec2Model ----
(***************************************************************************)
(* A model of surrealex (src/src/lib.rs): the Condition renderer, the      *)
(* QueryBuilder, the ScriptBuilder and the TransactionBuilder.             *)
(*                                                                         *)
(* A Rust String is modelled as a sequence of one-character strings, so    *)
(* that concatenation, join, trim and ends_with are computed character by  *)
(* character.  The two &'static str error values are never taken apart and *)
(* are kept as plain strings.                                              *)
(***************************************************************************)
EXTENDS Integers, Sequences, FiniteSets, TLC

VARIABLES
    qb,     \* the QueryBuilder
    sb,     \* the ScriptBuilder
    tb,     \* the TransactionBuilder
    ret,    \* what the most recent call returned
    hist,   \* the arguments of the QueryBuilder calls made so far, per method
    slog,   \* the ScriptBuilder calls made so far, in call order
    tlog,   \* the TransactionBuilder calls made so far, in call order
    input   \* the caller's values for this run: a Condition, a statement text

vars == <<qb, sb, tb, ret, hist, slog, tlog, input>>

-----------------------------------------------------------------------------
(* Option<T> *)

None == [some |-> FALSE]

Some(v) == [some |-> TRUE, val |-> v]

(* Result<T, &'static str> *)

Ok(v) == [ok |-> TRUE, val |-> v]

Err(e) == [ok |-> FALSE, err |-> e]

-----------------------------------------------------------------------------
(* String literals of the source *)

LitSelect == <<"S", "E", "L", "E", "C", "T", " ">>

LitSelectDistinct == <<"S", "E", "L", "E", "C", "T", " ", "D", "I", "S", "T", "I", "N", "C", "T", " ">>

LitFrom == <<" ", "F", "R", "O", "M", " ">>

LitWhere == <<" ", "W", "H", "E", "R", "E", " ">>

LitAnd == <<" ", "A", "N", "D", " ">>

LitOr == <<" ", "O", "R", " ">>

LitOrderBy == <<" ", "O", "R", "D", "E", "R", " ", "B", "Y", " ">>

LitLimit == <<" ", "L", "I", "M", "I", "T", " ">>

LitStart == <<" ", "S", "T", "A", "R", "T", " ">>

LitFetch == <<" ", "F", "E", "T", "C", "H", " ">>

LitComma == <<",", " ">>

LitAs == <<" ", "A", "S", " ">>

LitStar == <<"*">>

LitArrowOut == <<"-", ">">>

LitArrowIn == <<"<", "-">>

LitDotStar == <<".", "*">>

LitLet == <<"L", "E", "T", " ", "$">>

LitEqParen == <<" ", "=", " ", "(">>

LitReturnOpen == <<"R", "E", "T", "U", "R", "N", " ", "{", " ">>

LitReturnClose == <<" ", "}">>

LitColon == <<":", " ">>

LitBegin == <<"B", "E", "G", "I", "N", " ", "T", "R", "A", "N", "S", "A", "C", "T", "I", "O", "N", ";">>

LitCommit == <<"C", "O", "M", "M", "I", "T", " ", "T", "R", "A", "N", "S", "A", "C", "T", "I", "O", "N", ";">>

LitCancel == <<"C", "A", "N", "C", "E", "L", " ", "T", "R", "A", "N", "S", "A", "C", "T", "I", "O", "N", ";">>

MissingFromClause == "The FROM clause is required."

MissingReturnClause == "A return object is required."

-----------------------------------------------------------------------------
(* Library functions on strings and vectors that the source calls *)

RECURSIVE Join(_, _)
\* [String]::join(sep)
Join(strs, sep) ==
    IF Len(strs) = 0 THEN <<>>
    ELSE IF Len(strs) = 1 THEN strs[1]
    ELSE strs[1] \o sep \o Join(Tail(strs), sep)

RECURSIVE Concat(_)
\* every string of strs pushed onto an empty String in turn
Concat(strs) ==
    IF Len(strs) = 0 THEN <<>> ELSE strs[1] \o Concat(Tail(strs))

Digit(d) ==
    CASE d = 0 -> "0" [] d = 1 -> "1" [] d = 2 -> "2" [] d = 3 -> "3"
      [] d = 4 -> "4" [] d = 5 -> "5" [] d = 6 -> "6" [] d = 7 -> "7"
      [] d = 8 -> "8" [] d = 9 -> "9"

RECURSIVE FormatU64(_)
\* format!("{}", n) of a u64: its decimal digits, no sign, no padding
FormatU64(n) ==
    IF n < 10 THEN <<Digit(n)>>
    ELSE FormatU64(n \div 10) \o <<Digit(n % 10)>>

\* char::is_whitespace, on the characters the model uses
IsWhitespace(c) == c \in {" ", "\n", "\t"}

RECURSIVE TrimStart(_)
TrimStart(s) ==
    IF Len(s) > 0 /\ IsWhitespace(s[1]) THEN TrimStart(Tail(s)) ELSE s

RECURSIVE TrimEnd(_)
TrimEnd(s) ==
    IF Len(s) > 0 /\ IsWhitespace(s[Len(s)])
    THEN TrimEnd(SubSeq(s, 1, Len(s) - 1))
    ELSE s

\* str::trim
Trim(s) == TrimEnd(TrimStart(s))

\* str::ends_with(char)
EndsWith(s, c) == Len(s) > 0 /\ s[Len(s)] = c

-----------------------------------------------------------------------------
(* Condition and render_condition *)

Simple(s) == [tag |-> "Simple", s |-> s]

And(conditions) == [tag |-> "And", conditions |-> conditions]

Or(conditions) == [tag |-> "Or", conditions |-> conditions]

RECURSIVE render_condition_bare_and(_)
\* render_condition with parentheses around OR groups only
render_condition_bare_and(condition) ==
    CASE condition.tag = "Simple" -> condition.s
      [] condition.tag = "And" ->
            LET rendered == [i \in 1..Len(condition.conditions) |->
                                render_condition_bare_and(condition.conditions[i])]
            IN  Join(rendered, LitAnd)
      [] condition.tag = "Or" ->
            LET rendered == [i \in 1..Len(condition.conditions) |->
                                render_condition_bare_and(condition.conditions[i])]
            IN  <<"(">> \o Join(rendered, LitOr) \o <<")">>

RECURSIVE render_condition(_)
render_condition(condition) ==
    CASE condition.tag = "Simple" -> condition.s
      [] condition.tag = "And" ->
            LET rendered == [i \in 1..Len(condition.conditions) |->
                                render_condition(condition.conditions[i])]
            IN  <<"(">> \o Join(rendered, LitAnd) \o <<")">>
      [] condition.tag = "Or" ->
            LET rendered == [i \in 1..Len(condition.conditions) |->
                                render_condition(condition.conditions[i])]
            IN  <<"(">> \o Join(rendered, LitOr) \o <<")">>

-----------------------------------------------------------------------------
(* QueryBuilder *)

QueryBuilder_new ==
    [ select_items     |-> <<LitStar>>,
      graph_expansions |-> <<>>,
      traverse_clauses |-> <<>>,
      distinct         |-> FALSE,
      from_table       |-> None,
      fetch_clauses    |-> <<>>,
      where_clauses    |-> <<>>,
      order_by         |-> <<>>,
      limit            |-> None,
      start            |-> None ]

QueryBuilder_select(self, expr, alias) ==
    LET cleared == IF Len(self.select_items) = 1 /\ self.select_items[1] = LitStar
                   THEN <<>>
                   ELSE self.select_items
        item == IF alias.some THEN expr \o LitAs \o alias.val ELSE expr
    IN  [self EXCEPT !.select_items = Append(cleared, item)]

QueryBuilder_from(self, table) ==
    [self EXCEPT !.from_table = Some(table)]

QueryBuilder_fetch(self, field) ==
    [self EXCEPT !.fetch_clauses = Append(@, field)]

QueryBuilder_graph_expand(self, expansion_clause) ==
    [self EXCEPT !.graph_expansions = Append(@, expansion_clause)]

QueryBuilder_where_simple(self, condition) ==
    [self EXCEPT !.where_clauses = Append(@, Simple(condition))]

QueryBuilder_where_complex(self, condition) ==
    [self EXCEPT !.where_clauses = Append(@, condition)]

QueryBuilder_order_by(self, field_and_direction) ==
    [self EXCEPT !.order_by = Append(@, field_and_direction)]

QueryBuilder_limit(self, count) ==
    [self EXCEPT !.limit = Some(count)]

QueryBuilder_start(self, offset) ==
    [self EXCEPT !.start = Some(offset)]

QueryBuilder_distinct(self) ==
    [self EXCEPT !.distinct = TRUE]

\* GraphExpandParams: from and to are <<Direction, table>>, alias an Option
GraphExpandParams(from, to, alias) == [from |-> from, to |-> to, alias |-> alias]

Direction == {"Out", "In"}

\* graph_traverse with the second arrow drawn from the `to` direction
QueryBuilder_graph_traverse_to_direction(self, params) ==
    LET dir1 == params.from[1]
        tbl1 == params.from[2]
        dir2 == params.to[1]
        tbl2 == params.to[2]
        clause == (IF dir1 = "Out" THEN LitArrowOut ELSE LitArrowIn)
                  \o tbl1 \o (IF dir2 = "Out" THEN LitArrowOut ELSE LitArrowIn)
                  \o tbl2 \o LitDotStar
                  \o (IF params.alias.some THEN LitAs \o params.alias.val ELSE <<>>)
    IN  [self EXCEPT !.traverse_clauses = Append(@, clause)]

QueryBuilder_graph_traverse(self, params) ==
    LET dir1 == params.from[1]
        tbl1 == params.from[2]
        tbl2 == params.to[2]
        clause == (IF dir1 = "Out" THEN LitArrowOut ELSE LitArrowIn)
                  \o tbl1 \o LitArrowOut \o tbl2 \o LitDotStar
                  \o (IF params.alias.some THEN LitAs \o params.alias.val ELSE <<>>)
    IN  [self EXCEPT !.traverse_clauses = Append(@, clause)]

\* RenderQuery with FETCH emitted right after WHERE, before ORDER BY
RenderQuery_fetch_after_where(self, from_table) ==
    LET all_selects == self.select_items \o self.graph_expansions
        final_select_clause == Join(all_selects, LitComma)
        q0 == IF self.distinct
              THEN LitSelectDistinct \o final_select_clause \o LitFrom \o from_table
              ELSE LitSelect \o final_select_clause \o LitFrom \o from_table
        q1 == q0 \o Concat([i \in 1..Len(self.traverse_clauses) |->
                                <<" ">> \o self.traverse_clauses[i]])
        q2 == IF Len(self.where_clauses) # 0
              THEN q1 \o LitWhere
                      \o Join([i \in 1..Len(self.where_clauses) |->
                                  render_condition(self.where_clauses[i])], LitAnd)
              ELSE q1
        q3 == IF Len(self.fetch_clauses) # 0
              THEN q2 \o LitFetch \o Join(self.fetch_clauses, LitComma)
              ELSE q2
        q4 == IF Len(self.order_by) # 0
              THEN q3 \o LitOrderBy \o Join(self.order_by, LitComma)
              ELSE q3
        q5 == IF self.limit.some THEN q4 \o LitLimit \o FormatU64(self.limit.val) ELSE q4
        q6 == IF self.start.some THEN q5 \o LitStart \o FormatU64(self.start.val) ELSE q5
    IN  q6

\* build, once the FROM table is known: lines 136 to 183
RenderQuery(self, from_table) ==
    LET all_selects == self.select_items \o self.graph_expansions
        final_select_clause == Join(all_selects, LitComma)
        q0 == IF self.distinct
              THEN LitSelectDistinct \o final_select_clause \o LitFrom \o from_table
              ELSE LitSelect \o final_select_clause \o LitFrom \o from_table
        q1 == q0 \o Concat([i \in 1..Len(self.traverse_clauses) |->
                                <<" ">> \o self.traverse_clauses[i]])
        q2 == IF Len(self.where_clauses) # 0
              THEN q1 \o LitWhere
                      \o Join([i \in 1..Len(self.where_clauses) |->
                                  render_condition(self.where_clauses[i])], LitAnd)
              ELSE q1
        q3 == IF Len(self.order_by) # 0
              THEN q2 \o LitOrderBy \o Join(self.order_by, LitComma)
              ELSE q2
        q4 == IF self.limit.some THEN q3 \o LitLimit \o FormatU64(self.limit.val) ELSE q3
        q5 == IF self.start.some THEN q4 \o LitStart \o FormatU64(self.start.val) ELSE q4
        q6 == IF Len(self.fetch_clauses) # 0
              THEN q5 \o LitFetch \o Join(self.fetch_clauses, LitComma)
              ELSE q5
    IN  q6

\* QueryBuilder_build with a missing table defaulted to "" instead of refused
QueryBuilder_build_default_from(self) ==
    Ok(RenderQuery(self, IF self.from_table.some THEN self.from_table.val ELSE <<>>))

QueryBuilder_build(self) ==
    IF ~self.from_table.some THEN Err(MissingFromClause)
    ELSE Ok(RenderQuery(self, self.from_table.val))

-----------------------------------------------------------------------------
(* ScriptBuilder.  A method returning Result<&mut Self, _> is modelled as  *)
(* a record: self, the builder after the call, and ret, the value returned *)
(* (Ok(<<>>) stands for Ok(&mut Self)).                                    *)

ScriptBuilder_new == [statements |-> <<>>, return_map |-> None]

ScriptBuilder_let_raw(self, name, expr) ==
    LET s == LitLet \o name \o LitEqParen \o expr \o <<")", ";">>
    IN  [self EXCEPT !.statements = Append(@, s)]

ScriptBuilder_let_raw_with_suffix(self, name, expr, suffix) ==
    LET s == LitLet \o name \o LitEqParen \o expr \o <<")">> \o suffix \o <<";">>
    IN  [self EXCEPT !.statements = Append(@, s)]

\* let_query swallowing the error: the LET is added with an empty query
ScriptBuilder_let_query_swallow(self, name, q) ==
    LET r == QueryBuilder_build(q)
    IN  IF ~r.ok THEN [self |-> ScriptBuilder_let_raw(self, name, <<>>), ret |-> Ok(<<>>)]
        ELSE [self |-> ScriptBuilder_let_raw(self, name, r.val), ret |-> Ok(<<>>)]

ScriptBuilder_let_query(self, name, q) ==
    LET r == QueryBuilder_build(q)
    IN  IF ~r.ok THEN [self |-> self, ret |-> Err(r.err)]
        ELSE [self |-> ScriptBuilder_let_raw(self, name, r.val), ret |-> Ok(<<>>)]

ScriptBuilder_let_query_with_suffix(self, name, q, suffix) ==
    LET r == QueryBuilder_build(q)
    IN  IF ~r.ok THEN [self |-> self, ret |-> Err(r.err)]
        ELSE [self |-> ScriptBuilder_let_raw_with_suffix(self, name, r.val, suffix),
              ret |-> Ok(<<>>)]

\* map is a sequence of <<key, value>> pairs
ScriptBuilder_returning(self, map) ==
    [self EXCEPT !.return_map = Some(map)]

\* ScriptBuilder_build refusing only a return map that was never set
ScriptBuilder_build_empty_map(self) ==
    IF ~self.return_map.some
    THEN Err(MissingReturnClause)
    ELSE
    LET ret0 == self.return_map.val
        out == Concat([i \in 1..Len(self.statements) |-> self.statements[i] \o <<"\n">>])
        pairs == [i \in 1..Len(ret0) |-> ret0[i][1] \o LitColon \o ret0[i][2]]
    IN  Ok(out \o LitReturnOpen \o Join(pairs, LitComma) \o LitReturnClose)

ScriptBuilder_build(self) ==
    IF ~(self.return_map.some /\ Len(self.return_map.val) # 0)
    THEN Err(MissingReturnClause)
    ELSE
    LET ret0 == self.return_map.val
        out == Concat([i \in 1..Len(self.statements) |-> self.statements[i] \o <<"\n">>])
        pairs == [i \in 1..Len(ret0) |-> ret0[i][1] \o LitColon \o ret0[i][2]]
    IN  Ok(out \o LitReturnOpen \o Join(pairs, LitComma) \o LitReturnClose)

-----------------------------------------------------------------------------
(* TransactionBuilder *)

TransactionBuilder_new == [statements |-> <<>>]

TransactionBuilder_begin(self) ==
    [self EXCEPT !.statements = Append(@, LitBegin)]

\* add_statement appending ";" without looking at the end of the text
TransactionBuilder_add_statement_always(self, stmt) ==
    LET s == Trim(stmt)
    IN  [self EXCEPT !.statements = Append(@, s \o <<";">>)]

TransactionBuilder_add_statement(self, stmt) ==
    LET s == Trim(stmt)
    IN  IF EndsWith(s, ";")
        THEN [self EXCEPT !.statements = Append(@, s)]
        ELSE [self EXCEPT !.statements = Append(@, s \o <<";">>)]

TransactionBuilder_add_query_first(self, q) ==
    LET r == QueryBuilder_build(q)
    IN  IF ~r.ok THEN [self |-> self, ret |-> Err(r.err)]
        ELSE [self |-> [self EXCEPT !.statements = <<r.val \o <<";">> >> \o @],
              ret |-> Ok(<<>>)]

TransactionBuilder_add_query(self, q) ==
    LET r == QueryBuilder_build(q)
    IN  IF ~r.ok THEN [self |-> self, ret |-> Err(r.err)]
        ELSE [self |-> TransactionBuilder_add_statement(self, r.val), ret |-> Ok(<<>>)]

TransactionBuilder_add_query_with_suffix(self, q, suffix) ==
    LET r == QueryBuilder_build(q)
    IN  IF ~r.ok THEN [self |-> self, ret |-> Err(r.err)]
        ELSE [self |-> TransactionBuilder_add_statement(
                           self, <<"(">> \o r.val \o <<")">> \o suffix),
              ret |-> Ok(<<>>)]

TransactionBuilder_add_script(self, script) ==
    [self EXCEPT !.statements = Append(@, script)]

\* commit refused, silently, unless the transaction was begun
TransactionBuilder_commit_if_begun(self) ==
    IF \E i \in 1..Len(self.statements) : self.statements[i] = LitBegin
    THEN [self EXCEPT !.statements = Append(@, LitCommit)]
    ELSE self

TransactionBuilder_commit(self) ==
    [self EXCEPT !.statements = Append(@, LitCommit)]

TransactionBuilder_cancel(self) ==
    [self EXCEPT !.statements = Append(@, LitCancel)]

TransactionBuilder_build(self) == Join(self.statements, <<"\n">>)

-----------------------------------------------------------------------------
(* The state machine: a caller holding one builder of each kind and        *)
(* calling their methods in any order.                                     *)

\* ret after a method that returns &mut Self
Chain == [op |-> "chain", res |-> Ok(<<>>)]

\* ret after a method that returns a value: op names the method.  The
\* String of TransactionBuilder::build is recorded as Ok(String).
Returned(op, res) == [op |-> op, res |-> res]

NoCalls ==
    [ select |-> <<>>, from |-> <<>>, fetch |-> <<>>, graph_expand |-> <<>>,
      where |-> <<>>, order_by |-> <<>>, limit |-> <<>>, start |-> <<>>,
      distinct |-> 0, graph_traverse |-> <<>>, build_failed |-> FALSE ]

\* the number of QueryBuilder calls made, build() apart
NCalls ==
    Len(hist.select) + Len(hist.from) + Len(hist.fetch) + Len(hist.graph_expand)
    + Len(hist.where) + Len(hist.order_by) + Len(hist.limit) + Len(hist.start)
    + hist.distinct + Len(hist.graph_traverse)

InitWith(conds, stmts) ==
    /\ qb = QueryBuilder_new
    /\ sb = ScriptBuilder_new
    /\ tb = TransactionBuilder_new
    /\ ret = Returned("new", Ok(<<>>))
    /\ hist = NoCalls
    /\ slog = <<>>
    /\ tlog = <<>>
    /\ input \in [cond : conds, stmt : stmts]

(* QueryBuilder calls *)

Select(exprs, aliases) ==
    \E expr \in exprs, alias \in aliases :
        /\ qb' = QueryBuilder_select(qb, expr, alias)
        /\ hist' = [hist EXCEPT !.select = Append(@, <<expr, alias>>)]
        /\ ret' = Chain
        /\ UNCHANGED <<sb, tb, slog, tlog, input>>

From(tables) ==
    \E table \in tables :
        /\ qb' = QueryBuilder_from(qb, table)
        /\ hist' = [hist EXCEPT !.from = Append(@, table)]
        /\ ret' = Chain
        /\ UNCHANGED <<sb, tb, slog, tlog, input>>

Fetch(fields) ==
    \E field \in fields :
        /\ qb' = QueryBuilder_fetch(qb, field)
        /\ hist' = [hist EXCEPT !.fetch = Append(@, field)]
        /\ ret' = Chain
        /\ UNCHANGED <<sb, tb, slog, tlog, input>>

GraphExpand(clauses) ==
    \E expansion_clause \in clauses :
        /\ qb' = QueryBuilder_graph_expand(qb, expansion_clause)
        /\ hist' = [hist EXCEPT !.graph_expand = Append(@, expansion_clause)]
        /\ ret' = Chain
        /\ UNCHANGED <<sb, tb, slog, tlog, input>>

WhereSimple(texts) ==
    \E condition \in texts :
        /\ qb' = QueryBuilder_where_simple(qb, condition)
        /\ hist' = [hist EXCEPT !.where = Append(@, [simple |-> TRUE, arg |-> condition])]
        /\ ret' = Chain
        /\ UNCHANGED <<sb, tb, slog, tlog, input>>

WhereComplex(conditions) ==
    \E condition \in conditions :
        /\ qb' = QueryBuilder_where_complex(qb, condition)
        /\ hist' = [hist EXCEPT !.where = Append(@, [simple |-> FALSE, arg |-> condition])]
        /\ ret' = Chain
        /\ UNCHANGED <<sb, tb, slog, tlog, input>>

\* where_complex with the run's Condition
WhereComplexInput == WhereComplex({input.cond})

OrderBy(texts) ==
    \E field_and_direction \in texts :
        /\ qb' = QueryBuilder_order_by(qb, field_and_direction)
        /\ hist' = [hist EXCEPT !.order_by = Append(@, field_and_direction)]
        /\ ret' = Chain
        /\ UNCHANGED <<sb, tb, slog, tlog, input>>

Limit(counts) ==
    \E count \in counts :
        /\ qb' = QueryBuilder_limit(qb, count)
        /\ hist' = [hist EXCEPT !.limit = Append(@, count)]
        /\ ret' = Chain
        /\ UNCHANGED <<sb, tb, slog, tlog, input>>

Start(offsets) ==
    \E offset \in offsets :
        /\ qb' = QueryBuilder_start(qb, offset)
        /\ hist' = [hist EXCEPT !.start = Append(@, offset)]
        /\ ret' = Chain
        /\ UNCHANGED <<sb, tb, slog, tlog, input>>

Distinct ==
    /\ qb' = QueryBuilder_distinct(qb)
    /\ hist' = [hist EXCEPT !.distinct = @ + 1]
    /\ ret' = Chain
    /\ UNCHANGED <<sb, tb, slog, tlog, input>>

GraphTraverse(dirs1, dirs2, tables1, tables2, aliases) ==
    \E dir1 \in dirs1, dir2 \in dirs2, tbl1 \in tables1, tbl2 \in tables2,
       alias \in aliases :
        LET params == GraphExpandParams(<<dir1, tbl1>>, <<dir2, tbl2>>, alias)
        IN  /\ qb' = QueryBuilder_graph_traverse(qb, params)
            /\ hist' = [hist EXCEPT !.graph_traverse = Append(@, params)]
            /\ ret' = Chain
            /\ UNCHANGED <<sb, tb, slog, tlog, input>>

\* Build taking the builder's contents: the builder is left as new
Build_taking ==
    LET r == QueryBuilder_build(qb)
    IN  /\ ret' = Returned("QueryBuilder::build", r)
        /\ hist' = [hist EXCEPT !.build_failed = @ \/ ~r.ok]
        /\ qb' = QueryBuilder_new
        /\ UNCHANGED <<sb, tb, slog, tlog, input>>

\* build(&self): the builder is only read
Build ==
    LET r == QueryBuilder_build(qb)
    IN  /\ ret' = Returned("QueryBuilder::build", r)
        /\ hist' = [hist EXCEPT !.build_failed = @ \/ ~r.ok]
        /\ UNCHANGED <<qb, sb, tb, slog, tlog, input>>

(* ScriptBuilder calls.  A call that embeds a query is logged with the     *)
(* QueryBuilder it was handed.                                             *)

LetRaw(names, exprs) ==
    \E name \in names, expr \in exprs :
        /\ sb' = ScriptBuilder_let_raw(sb, name, expr)
        /\ slog' = Append(slog, [op |-> "let_raw", name |-> name, expr |-> expr])
        /\ ret' = Chain
        /\ UNCHANGED <<qb, tb, hist, tlog, input>>

LetRawWithSuffix(names, exprs, suffixes) ==
    \E name \in names, expr \in exprs, suffix \in suffixes :
        /\ sb' = ScriptBuilder_let_raw_with_suffix(sb, name, expr, suffix)
        /\ slog' = Append(slog, [op |-> "let_raw_with_suffix", name |-> name,
                                 expr |-> expr, suffix |-> suffix])
        /\ ret' = Chain
        /\ UNCHANGED <<qb, tb, hist, tlog, input>>

LetQuery(names) ==
    \E name \in names :
        LET r == ScriptBuilder_let_query(sb, name, qb)
        IN  /\ sb' = r.self
            /\ slog' = Append(slog, [op |-> "let_query", name |-> name, q |-> qb])
            /\ ret' = Returned("let_query", r.ret)
            /\ UNCHANGED <<qb, tb, hist, tlog, input>>

LetQueryWithSuffix(names, suffixes) ==
    \E name \in names, suffix \in suffixes :
        LET r == ScriptBuilder_let_query_with_suffix(sb, name, qb, suffix)
        IN  /\ sb' = r.self
            /\ slog' = Append(slog, [op |-> "let_query_with_suffix", name |-> name,
                                     q |-> qb, suffix |-> suffix])
            /\ ret' = Returned("let_query_with_suffix", r.ret)
            /\ UNCHANGED <<qb, tb, hist, tlog, input>>

Returning(maps) ==
    \E map \in maps :
        /\ sb' = ScriptBuilder_returning(sb, map)
        /\ slog' = Append(slog, [op |-> "returning", map |-> map])
        /\ ret' = Chain
        /\ UNCHANGED <<qb, tb, hist, tlog, input>>

\* build(&self): the builder is only read
ScriptBuild ==
    /\ ret' = Returned("ScriptBuilder::build", ScriptBuilder_build(sb))
    /\ UNCHANGED <<qb, sb, tb, hist, slog, tlog, input>>

(* TransactionBuilder calls *)

Begin ==
    /\ tb' = TransactionBuilder_begin(tb)
    /\ tlog' = Append(tlog, [op |-> "begin"])
    /\ ret' = Chain
    /\ UNCHANGED <<qb, sb, hist, slog, input>>

AddStatement(texts) ==
    \E stmt \in texts :
        /\ tb' = TransactionBuilder_add_statement(tb, stmt)
        /\ tlog' = Append(tlog, [op |-> "add_statement", stmt |-> stmt])
        /\ ret' = Chain
        /\ UNCHANGED <<qb, sb, hist, slog, input>>

\* add_statement with the run's statement text X, and with X followed by ";"
AddStatementInput == AddStatement({input.stmt})

AddStatementInputSemicolon == AddStatement({input.stmt \o <<";">>})

AddQuery ==
    LET r == TransactionBuilder_add_query(tb, qb)
    IN  /\ tb' = r.self
        /\ tlog' = Append(tlog, [op |-> "add_query", q |-> qb])
        /\ ret' = Returned("add_query", r.ret)
        /\ UNCHANGED <<qb, sb, hist, slog, input>>

AddQueryWithSuffix(suffixes) ==
    \E suffix \in suffixes :
        LET r == TransactionBuilder_add_query_with_suffix(tb, qb, suffix)
        IN  /\ tb' = r.self
            /\ tlog' = Append(tlog, [op |-> "add_query_with_suffix", q |-> qb,
                                     suffix |-> suffix])
            /\ ret' = Returned("add_query_with_suffix", r.ret)
            /\ UNCHANGED <<qb, sb, hist, slog, input>>

AddScript(scripts) ==
    \E script \in scripts :
        /\ tb' = TransactionBuilder_add_script(tb, script)
        /\ tlog' = Append(tlog, [op |-> "add_script", script |-> script])
        /\ ret' = Chain
        /\ UNCHANGED <<qb, sb, hist, slog, input>>

Commit ==
    /\ tb' = TransactionBuilder_commit(tb)
    /\ tlog' = Append(tlog, [op |-> "commit"])
    /\ ret' = Chain
    /\ UNCHANGED <<qb, sb, hist, slog, input>>

Cancel ==
    /\ tb' = TransactionBuilder_cancel(tb)
    /\ tlog' = Append(tlog, [op |-> "cancel"])
    /\ ret' = Chain
    /\ UNCHANGED <<qb, sb, hist, slog, input>>

\* build(&self): the builder is only read
TransactionBuild ==
    /\ ret' = Returned("TransactionBuilder::build", Ok(TransactionBuilder_build(tb)))
    /\ UNCHANGED <<qb, sb, tb, hist, slog, tlog, input>>

-----------------------------------------------------------------------------
(* Argument values and bounds *)

\* the most QueryBuilder calls (build() apart) in one run of Spec
MaxCalls == 5

NoCond == Simple(<<>>)

NoStmt == <<>>

Nested == And(<<Simple(<<"a", "=", "1">>),
                Or(<<Simple(<<"b", "=", "2">>), Simple(<<"c", "=", "3">>)>>)>>)

(* Spec: every QueryBuilder method, in any order, build() at any point *)

Init == InitWith({NoCond}, {NoStmt})

\* the caller may make another QueryBuilder call
More == NCalls < MaxCalls

Next ==
    \/ More /\ Select({<<"a">>}, {None})
    \/ More /\ From({<<"t">>, <<>>})
    \/ More /\ Fetch({<<"f">>, <<"g">>})
    \/ More /\ GraphExpand({<<"e">>})
    \/ More /\ WhereSimple({<<"w">>})
    \/ More /\ WhereComplex({Nested})
    \/ More /\ OrderBy({<<"o">>, <<"p">>})
    \/ More /\ Limit({10})
    \/ More /\ Start({2})
    \/ More /\ Distinct
    \/ More /\ GraphTraverse({"In"}, {"Out"}, {<<"r">>}, {<<"e">>}, {None})
    \/ Build

Spec == Init /\ [][Next]_vars

(* SpecSelect: select() with and without alias, with "*" and "" among the *)
(* expressions, and graph_expand()                                         *)

MaxSelectCalls == 4

MoreSelect == NCalls < MaxSelectCalls

NextSelect ==
    \/ MoreSelect /\ Select({<<"*">>, <<"a">>, <<>>}, {None, Some(<<"x">>)})
    \/ MoreSelect /\ GraphExpand({<<"e">>, <<"h">>})
    \/ MoreSelect /\ From({<<"t">>})
    \/ Build

SpecSelect == Init /\ [][NextSelect]_vars

(* SpecTraverse: graph_traverse() with every direction pair, with and      *)
(* without alias                                                           *)

MaxTraverseCalls == 4

MoreTraverse == NCalls < MaxTraverseCalls

NextTraverse ==
    \/ MoreTraverse /\ GraphTraverse(Direction, Direction, {<<"r">>}, {<<"e">>},
                                     {None, Some(<<"x">>)})
    \/ MoreTraverse /\ From({<<"t">>})
    \/ MoreTraverse /\ WhereSimple({<<"w">>})
    \/ Build

SpecTraverse == Init /\ [][NextTraverse]_vars

(* SpecCondition: the run's Condition is any tree of at most MaxNodes      *)
(* nodes with leaves a and b; it is added with where_complex()             *)

MaxNodes == 4

LeafTexts == {<<"a">>, <<"b">>}

RECURSIVE ConditionsOfSize(_)
RECURSIVE ConditionListsOfSize(_)
\* the Conditions with exactly n nodes
ConditionsOfSize(n) ==
    IF n = 1
    THEN {Simple(s) : s \in LeafTexts} \cup {And(<<>>), Or(<<>>)}
    ELSE {And(cs) : cs \in ConditionListsOfSize(n - 1)}
         \cup {Or(cs) : cs \in ConditionListsOfSize(n - 1)}

\* the non-empty lists of Conditions with n nodes in all
ConditionListsOfSize(n) ==
    UNION {{<<c>> \o cs : c \in ConditionsOfSize(k),
                          cs \in IF k = n THEN {<<>>} ELSE ConditionListsOfSize(n - k)}
           : k \in 1..n}

Conditions == UNION {ConditionsOfSize(n) : n \in 1..MaxNodes}

\* the most where_simple and where_complex calls in one run
MaxWhereCalls == 2

MoreWhere == Len(hist.where) < MaxWhereCalls

InitCondition == InitWith(Conditions, {NoStmt})

\* from() is called once, at any point
NextCondition ==
    \/ MoreWhere /\ WhereComplexInput
    \/ MoreWhere /\ WhereSimple({<<"a">>})
    \/ Len(hist.from) = 0 /\ From({<<"t">>})
    \/ Build

SpecCondition == InitCondition /\ [][NextCondition]_vars

(* SpecEmbed: a QueryBuilder with or without FROM handed to the            *)
(* ScriptBuilder and to the TransactionBuilder, and changed between the    *)
(* calls that hand it over                                                 *)

MaxEmbedCalls == 4

MoreEmbed == NCalls + Len(slog) + Len(tlog) < MaxEmbedCalls

NextEmbed ==
    \/ MoreEmbed /\ From({<<"t">>})
    \/ MoreEmbed /\ WhereSimple({<<"w">>})
    \/ MoreEmbed /\ Select({<<"a">>}, {None})
    \/ MoreEmbed /\ Limit({10})
    \/ MoreEmbed /\ LetRaw({<<"m">>}, {<<"1">>})
    \/ MoreEmbed /\ LetQuery({<<"n">>})
    \/ MoreEmbed /\ LetQueryWithSuffix({<<"n">>}, {<<"[", "0", "]">>})
    \/ MoreEmbed /\ Returning({<<(<<(<<"k">>), (<<"$", "n">>)>>)>>})
    \/ MoreEmbed /\ Begin
    \/ MoreEmbed /\ AddQuery
    \/ MoreEmbed /\ AddQueryWithSuffix({<<"[", "0", "]">>})
    \/ ScriptBuild
    \/ TransactionBuild

SpecEmbed == Init /\ [][NextEmbed]_vars

(* SpecScript: LET statements of every kind and returning() with no, one   *)
(* and two pairs                                                           *)

MaxScriptCalls == 4

MoreScript == NCalls + Len(slog) < MaxScriptCalls

ReturnMaps ==
    { <<>>,
      <<(<<(<<"k">>), (<<"$", "n">>)>>)>>,
      <<(<<(<<"j">>), (<<"1">>)>>), (<<(<<"k">>), (<<"$", "n">>)>>)>> }

NextScript ==
    \/ MoreScript /\ From({<<"t">>})
    \/ MoreScript /\ LetRaw({<<"n">>}, {<<"1">>})
    \/ MoreScript /\ LetRawWithSuffix({<<"m">>}, {<<"2">>}, {<<".", "c">>})
    \/ MoreScript /\ LetQuery({<<"q">>})
    \/ MoreScript /\ LetQueryWithSuffix({<<"q">>}, {<<"[", "0", "]">>})
    \/ MoreScript /\ Returning(ReturnMaps)
    \/ ScriptBuild

SpecScript == Init /\ [][NextScript]_vars

(* SpecTransaction: begin, add_statement, add_script, commit and cancel in *)
(* any order and number                                                    *)

MaxTransactionCalls == 4

MoreTransaction == Len(tlog) < MaxTransactionCalls

NextTransaction ==
    \/ MoreTransaction /\ Begin
    \/ MoreTransaction /\ AddStatement({<<"a">>, <<" ", "b", ";", " ">>})
    \/ MoreTransaction /\ AddScript({<<"L", ";", "\n", "R", " ">>})
    \/ MoreTransaction /\ Commit
    \/ MoreTransaction /\ Cancel
    \/ TransactionBuild

SpecTransaction == Init /\ [][NextTransaction]_vars

(* SpecStatement: the run's statement text X is any text of at most        *)
(* MaxStatementLen characters among "a", ";", " " and newline; it is added *)
(* as X and as X followed by ";"                                           *)

MaxStatementLen == 3

StatementChars == {"a", ";", " ", "\n"}

StatementTexts == UNION {[1..n -> StatementChars] : n \in 0..MaxStatementLen}

MaxStatementCalls == 2

MoreStatement == Len(tlog) < MaxStatementCalls

InitStatement == InitWith({NoCond}, StatementTexts)

NextStatement ==
    \/ MoreStatement /\ AddStatementInput
    \/ MoreStatement /\ AddStatementInputSemicolon
    \/ TransactionBuild

SpecStatement == InitStatement /\ [][NextStatement]_vars

-----------------------------------------------------------------------------
(* What the calls made so far should render to, clause by clause *)

Last(seq) == seq[Len(seq)]

\* the number of places where pat occurs in s
Occurrences(pat, s) ==
    Cardinality({i \in 1..(Len(s) - Len(pat) + 1) : SubSeq(s, i, i + Len(pat) - 1) = pat})

\* <arrow1><fromTable>-><toTable>.*[ AS alias]
TraverseFragment(p) ==
    (IF p.from[1] = "Out" THEN <<"-", ">">> ELSE <<"<", "-">>)
    \o p.from[2] \o <<"-", ">">> \o p.to[2] \o <<".", "*">>
    \o (IF p.alias.some THEN <<" ", "A", "S", " ">> \o p.alias.val ELSE <<>>)

TraversePart(h) ==
    Concat([i \in 1..Len(h.graph_traverse) |-> <<" ">> \o TraverseFragment(h.graph_traverse[i])])

WherePart(h) ==
    IF Len(h.where) = 0 THEN <<>>
    ELSE LitWhere \o Join([i \in 1..Len(h.where) |->
                              IF h.where[i].simple THEN h.where[i].arg
                              ELSE render_condition(h.where[i].arg)], LitAnd)

OrderByPart(h) ==
    IF Len(h.order_by) = 0 THEN <<>> ELSE LitOrderBy \o Join(h.order_by, LitComma)

LimitPart(h) ==
    IF Len(h.limit) = 0 THEN <<>> ELSE LitLimit \o FormatU64(Last(h.limit))

StartPart(h) ==
    IF Len(h.start) = 0 THEN <<>> ELSE LitStart \o FormatU64(Last(h.start))

FetchPart(h) ==
    IF Len(h.fetch) = 0 THEN <<>> ELSE LitFetch \o Join(h.fetch, LitComma)

\* the query for the calls h, given its select list
ExpectedQuery(list, h) ==
    <<"S", "E", "L", "E", "C", "T", " ">>
    \o (IF h.distinct > 0 THEN <<"D", "I", "S", "T", "I", "N", "C", "T", " ">> ELSE <<>>)
    \o list \o LitFrom \o Last(h.from)
    \o TraversePart(h) \o WherePart(h) \o OrderByPart(h)
    \o LimitPart(h) \o StartPart(h) \o FetchPart(h)

\* the select list as the builder holds it, then the graph_expand arguments
HeldSelectList == Join(qb.select_items \o hist.graph_expand, LitComma)

BuildReturned == ret.op = "QueryBuilder::build"

-----------------------------------------------------------------------------
(* C1: build() returns the missing-FROM error ("The FROM clause is         *)
(* required.") exactly when from() was never called, whatever other        *)
(* builder calls were made and in whatever order, and succeeds whenever    *)
(* from() was called at least once.                                        *)
C1_MissingFrom ==
    /\ QueryBuilder_build(qb).ok <=> Len(hist.from) > 0
    /\ Len(hist.from) = 0 => QueryBuilder_build(qb) = Err("The FROM clause is required.")
    /\ BuildReturned =>
          /\ ret.res.ok <=> Len(hist.from) > 0
          /\ ~ret.res.ok => ret.res.err = "The FROM clause is required."

\* build() has failed on a builder that other calls had filled
C1_Witness ==
    /\ BuildReturned /\ ~ret.res.ok
    /\ Len(hist.select) > 0 /\ Len(hist.where) > 0 /\ Len(hist.fetch) > 0
    /\ Len(hist.limit) > 0 /\ hist.distinct > 0

(* C2: a successful build() emits SELECT [DISTINCT] <list> FROM <table>,   *)
(* then the traversal clauses, WHERE, ORDER BY, LIMIT, START and FETCH in  *)
(* that order whatever the order of the calls; each optional clause occurs *)
(* once when its data is non-empty and not at all when it is empty; ORDER  *)
(* BY and FETCH entries are in call order.                                 *)
C2_FixedClauseOrder ==
    (BuildReturned /\ ret.res.ok) =>
        /\ ret.res.val = ExpectedQuery(HeldSelectList, hist)
        /\ Occurrences(LitWhere, ret.res.val) = IF Len(hist.where) > 0 THEN 1 ELSE 0
        /\ Occurrences(LitOrderBy, ret.res.val) = IF Len(hist.order_by) > 0 THEN 1 ELSE 0
        /\ Occurrences(LitLimit, ret.res.val) = IF Len(hist.limit) > 0 THEN 1 ELSE 0
        /\ Occurrences(LitStart, ret.res.val) = IF Len(hist.start) > 0 THEN 1 ELSE 0
        /\ Occurrences(LitFetch, ret.res.val) = IF Len(hist.fetch) > 0 THEN 1 ELSE 0

\* build() has rendered WHERE, ORDER BY and two FETCH fields, g fetched before f
C2_Witness ==
    /\ BuildReturned /\ ret.res.ok
    /\ Len(hist.where) > 0 /\ Len(hist.order_by) > 0
    /\ hist.fetch = <<(<<"g">>), (<<"f">>)>>

(* C3: the select list starts as the default "*", which the first         *)
(* select() call clears and no later one does: after n >= 1 select() calls *)
(* the rendered select list is the n items passed, in call order, each as  *)
(* `expr` or `expr AS alias`, followed by the graph_expand entries in call *)
(* order; with no select() call it is "*" followed by those entries.       *)
SelectItem(call) ==
    IF call[2].some THEN call[1] \o <<" ", "A", "S", " ">> \o call[2].val ELSE call[1]

CalledSelectItems == [i \in 1..Len(hist.select) |-> SelectItem(hist.select[i])]

\* C3: the builder's select list is the select() calls' items, and build()
\* renders it followed by the graph_expand entries
C3_SelectListIsTheCalls ==
    /\ qb.select_items = IF Len(hist.select) = 0 THEN <<(<<"*">>)>> ELSE CalledSelectItems
    /\ (BuildReturned /\ ret.res.ok) =>
          ret.res.val = ExpectedQuery(Join(qb.select_items \o hist.graph_expand, LitComma), hist)

(* C4: render_condition renders a Condition tree structurally, at every    *)
(* depth: Simple(s) as s; And(children) as "(" + the children's renderings *)
(* in order joined by " AND " + ")"; Or(children) likewise with " OR ";    *)
(* an empty group as "()".  The WHERE clause is the renderings of the      *)
(* top-level conditions in insertion order joined by " AND ", and          *)
(* where_simple(t) builds the same query as where_complex(Simple(t)).      *)
RECURSIVE RenderedStructurally(_)
RenderedStructurally(c) ==
    CASE c.tag = "Simple" -> render_condition(c) = c.s
      [] c.tag \in {"And", "Or"} ->
            /\ render_condition(c) =
                  <<"(">>
                  \o Join([i \in 1..Len(c.conditions) |-> render_condition(c.conditions[i])],
                          IF c.tag = "And" THEN <<" ", "A", "N", "D", " ">>
                          ELSE <<" ", "O", "R", " ">>)
                  \o <<")">>
            /\ \A i \in 1..Len(c.conditions) : RenderedStructurally(c.conditions[i])

RECURSIVE CompositeNodes(_)
\* the number of And and Or nodes of c
CompositeNodes(c) ==
    IF c.tag = "Simple" THEN 0
    ELSE LET n[i \in 0..Len(c.conditions)] ==
                 IF i = 0 THEN 1 ELSE n[i - 1] + CompositeNodes(c.conditions[i])
         IN  n[Len(c.conditions)]

\* the Condition a where call pushed
Pushed(w) == IF w.simple THEN Simple(w.arg) ELSE w.arg

\* C4: the run's Condition, the test's nested example and the empty groups
\* render structurally; WHERE joins the pushed conditions; the shorthand and
\* the tree form of a leaf build the same
C4_RenderCondition ==
    /\ RenderedStructurally(input.cond)
    /\ Occurrences(<<"(">>, render_condition(input.cond)) = CompositeNodes(input.cond)
    /\ Occurrences(<<")">>, render_condition(input.cond)) = CompositeNodes(input.cond)
    /\ render_condition(Nested)
          = <<"(", "a", "=", "1", " ", "A", "N", "D", " ",
              "(", "b", "=", "2", " ", "O", "R", " ", "c", "=", "3", ")", ")">>
    /\ render_condition(And(<<>>)) = <<"(", ")">>
    /\ render_condition(Or(<<>>)) = <<"(", ")">>
    /\ qb.where_clauses = [i \in 1..Len(hist.where) |-> Pushed(hist.where[i])]
    /\ (BuildReturned /\ ret.res.ok /\ Len(hist.where) > 0) =>
          ret.res.val =
              <<"S", "E", "L", "E", "C", "T", " ", "*">> \o LitFrom \o Last(hist.from)
              \o LitWhere
              \o Join([i \in 1..Len(hist.where) |-> render_condition(Pushed(hist.where[i]))],
                      <<" ", "A", "N", "D", " ">>)
    /\ \A t \in LeafTexts :
          QueryBuilder_build(QueryBuilder_where_simple(qb, t))
              = QueryBuilder_build(QueryBuilder_where_complex(qb, Simple(t)))

\* build() has rendered a WHERE clause of a shorthand condition and a tree
\* that nests a group in a group
C4_Witness ==
    /\ BuildReturned /\ ret.res.ok
    /\ Len(hist.where) = 2 /\ hist.where[1].simple /\ ~hist.where[2].simple
    /\ input.cond.tag = "And" /\ Len(input.cond.conditions) = 2
    /\ input.cond.conditions[2].tag = "Or" /\ Len(input.cond.conditions[2].conditions) = 1

(* C5: build() never changes the builder, whether it succeeds or fails: a *)
(* step in which build() returns leaves the builder as it was; a build()   *)
(* right after a build() returns the same result; and once a build() has   *)
(* failed for a missing FROM, a from(t) call makes build() succeed with    *)
(* every clause accumulated before the failed build in its output.         *)
C5_BuildStep ==
    ret'.op = "QueryBuilder::build" =>
        /\ qb' = qb
        /\ BuildReturned => ret'.res = ret.res

C5_RetryStep ==
    (BuildReturned /\ ~ret.res.ok /\ Len(hist'.from) > Len(hist.from)) =>
        /\ qb' = [qb EXCEPT !.from_table = Some(Last(hist'.from))]
        /\ QueryBuilder_build(qb') = Ok(ExpectedQuery(HeldSelectList, hist'))

\* C5: every step is a C5_BuildStep and a C5_RetryStep
C5_BuildLeavesBuilder == [][C5_BuildStep /\ C5_RetryStep]_vars

\* a build() failed, from() was called, and build() then rendered the WHERE
\* and FETCH clauses given before the failure
C5_Witness ==
    /\ hist.build_failed /\ BuildReturned /\ ret.res.ok
    /\ Len(hist.from) = 1 /\ Len(hist.where) > 0 /\ Len(hist.fetch) > 0
    /\ ret.res.val = ExpectedQuery(HeldSelectList, hist)

(* C6: handed a QueryBuilder with no FROM table, let_query,               *)
(* let_query_with_suffix, add_query and add_query_with_suffix each return  *)
(* the very error of QueryBuilder.build() and append no statement: the     *)
(* ScriptBuilder and the TransactionBuilder, and what their build()        *)
(* returns, are as if the failing calls had not been made.                 *)
EmbedOps == {"let_query", "let_query_with_suffix", "add_query", "add_query_with_suffix"}

\* a logged call that was handed a QueryBuilder with no FROM table
NoFrom(call) == call.op \in EmbedOps /\ ~call.q.from_table.some

WithFrom(call) == ~NoFrom(call)

RECURSIVE ScriptAfter(_)
\* the ScriptBuilder after the calls of log, made on a new one
ScriptAfter(log) ==
    IF Len(log) = 0 THEN ScriptBuilder_new
    ELSE LET self == ScriptAfter(SubSeq(log, 1, Len(log) - 1))
             c == Last(log)
         IN  CASE c.op = "let_raw" -> ScriptBuilder_let_raw(self, c.name, c.expr)
               [] c.op = "let_raw_with_suffix" ->
                     ScriptBuilder_let_raw_with_suffix(self, c.name, c.expr, c.suffix)
               [] c.op = "let_query" -> ScriptBuilder_let_query(self, c.name, c.q).self
               [] c.op = "let_query_with_suffix" ->
                     ScriptBuilder_let_query_with_suffix(self, c.name, c.q, c.suffix).self
               [] c.op = "returning" -> ScriptBuilder_returning(self, c.map)

RECURSIVE TransactionAfter(_)
\* the TransactionBuilder after the calls of log, made on a new one
TransactionAfter(log) ==
    IF Len(log) = 0 THEN TransactionBuilder_new
    ELSE LET self == TransactionAfter(SubSeq(log, 1, Len(log) - 1))
             c == Last(log)
         IN  CASE c.op = "begin" -> TransactionBuilder_begin(self)
               [] c.op = "add_statement" -> TransactionBuilder_add_statement(self, c.stmt)
               [] c.op = "add_query" -> TransactionBuilder_add_query(self, c.q).self
               [] c.op = "add_query_with_suffix" ->
                     TransactionBuilder_add_query_with_suffix(self, c.q, c.suffix).self
               [] c.op = "add_script" -> TransactionBuilder_add_script(self, c.script)
               [] c.op = "commit" -> TransactionBuilder_commit(self)
               [] c.op = "cancel" -> TransactionBuilder_cancel(self)

\* the QueryBuilder the most recent embedding call was handed
LastEmbedded == IF ret.op \in {"let_query", "let_query_with_suffix"}
                THEN Last(slog).q ELSE Last(tlog).q

\* C6: a refused embedding call returns build()'s error, and both builders
\* are what the calls that were not refused make of new ones
C6_EmbedPropagatesMissingFrom ==
    /\ ret.op \in EmbedOps =>
          /\ ret.res.ok <=> LastEmbedded.from_table.some
          /\ ~LastEmbedded.from_table.some =>
                /\ ret.res = QueryBuilder_build(LastEmbedded)
                /\ ret.res = Err("The FROM clause is required.")
    /\ sb = ScriptAfter(SelectSeq(slog, WithFrom))
    /\ tb = TransactionAfter(SelectSeq(tlog, WithFrom))
    /\ Len(sb.statements) = Len(SelectSeq(slog, LAMBDA c : c.op # "returning" /\ WithFrom(c)))
    /\ Len(tb.statements) = Len(SelectSeq(tlog, WithFrom))
    /\ ret.op = "ScriptBuilder::build" =>
          ret.res = ScriptBuilder_build(ScriptAfter(SelectSeq(slog, WithFrom)))
    /\ ret.op = "TransactionBuilder::build" =>
          ret.res = Ok(TransactionBuilder_build(TransactionAfter(SelectSeq(tlog, WithFrom))))

\* a let_query_with_suffix and an add_query were refused for the missing
\* FROM, each on a builder that held one statement, and the last call
\* returned the error
C6_Witness ==
    /\ ret.op = "add_query" /\ ~ret.res.ok
    /\ Len(slog) = 2 /\ slog[1].op = "let_raw" /\ slog[2].op = "let_query_with_suffix"
    /\ NoFrom(slog[2])
    /\ Len(tlog) = 2 /\ tlog[1].op = "begin" /\ NoFrom(tlog[2])
    /\ Len(sb.statements) = 1 /\ Len(tb.statements) = 1

(* C7: ScriptBuilder.build() returns the missing-return error ("A return   *)
(* object is required.") exactly when returning() was never called or its  *)
(* most recent call passed an empty list, whatever LET statements were     *)
(* added; otherwise it returns every LET statement in call order, each     *)
(* followed by one newline, then RETURN { k1: v1, k2: v2, ... } with the   *)
(* pairs of the most recent returning() call in their order, joined by     *)
(* ", ", and no trailing newline.                                          *)
ReturningCalls == SelectSeq(slog, LAMBDA c : c.op = "returning")

\* the LET statement of a logged call that added one
LetStatement(c) ==
    LET expr == IF c.op \in {"let_raw", "let_raw_with_suffix"} THEN c.expr
                ELSE QueryBuilder_build(c.q).val
        suffix == IF c.op \in {"let_raw_with_suffix", "let_query_with_suffix"}
                  THEN c.suffix ELSE <<>>
    IN  <<"L", "E", "T", " ", "$">> \o c.name \o <<" ", "=", " ", "(">> \o expr
        \o <<")">> \o suffix \o <<";">>

LetCalls == SelectSeq(slog, LAMBDA c : c.op # "returning" /\ WithFrom(c))

ExpectedScript ==
    IF Len(ReturningCalls) = 0 \/ Len(Last(ReturningCalls).map) = 0
    THEN Err("A return object is required.")
    ELSE LET map == Last(ReturningCalls).map
         IN  Ok(Concat([i \in 1..Len(LetCalls) |-> LetStatement(LetCalls[i]) \o <<"\n">>])
                \o <<"R", "E", "T", "U", "R", "N", " ", "{", " ">>
                \o Join([i \in 1..Len(map) |-> map[i][1] \o <<":", " ">> \o map[i][2]],
                        <<",", " ">>)
                \o <<" ", "}">>)

\* C7: build() is ExpectedScript, and a script does not end in a newline
C7_ScriptBuild ==
    /\ ScriptBuilder_build(sb) = ExpectedScript
    /\ ret.op = "ScriptBuilder::build" =>
          /\ ret.res = ExpectedScript
          /\ ret.res.ok => Last(ret.res.val) # "\n"

\* build() has returned a script of one LET statement and a two-pair
\* RETURN, set by a returning() call that followed an empty one
C7_Witness ==
    /\ ret.op = "ScriptBuilder::build" /\ ret.res.ok
    /\ Len(LetCalls) = 1 /\ Len(ReturningCalls) = 2
    /\ Len(ReturningCalls[1].map) = 0 /\ Len(ReturningCalls[2].map) = 2

(* C8, as claimed: for every statement text X that does not end in ";",    *)
(* add_statement(X) and add_statement(X followed by ";") each append one   *)
(* statement, the same in both cases: the whitespace-trimmed X followed by *)
(* a single ";".                                                           *)
AddedAsTrimmedSemicolon ==
    /\ Len(tb.statements) = Len(tlog)
    /\ \A i \in 1..Len(tlog) : tb.statements[i] = Trim(input.stmt) \o <<";">>

\* C8 as claimed: X not ending in ";" is always added as trimmed X and ";"
C8_AsClaimed ==
    ~EndsWith(input.stmt, ";") => AddedAsTrimmedSemicolon

(* C8, amended: the same for every X that ends neither in ";" nor in a     *)
(* whitespace character.                                                   *)
EndsInWhitespace(s) == Len(s) > 0 /\ Last(s) \in {" ", "\n", "\t"}

\* C8 amended: X ending neither in ";" nor in whitespace is always added
\* as trimmed X and ";", with or without a ";" after it
C8_AddStatementIdempotent ==
    (~EndsWith(input.stmt, ";") /\ ~EndsInWhitespace(input.stmt)) =>
        /\ AddedAsTrimmedSemicolon
        /\ TransactionBuilder_add_statement(tb, input.stmt)
              = TransactionBuilder_add_statement(tb, input.stmt \o <<";">>)

\* X = " a" was added as X; and as X, each time as the statement a;
C8_Witness ==
    /\ input.stmt = <<" ", "a">>
    /\ Len(tlog) = 2
    /\ tlog[1].stmt = <<" ", "a", ";">> /\ tlog[2].stmt = <<" ", "a">>
    /\ tb.statements = <<(<<"a", ";">>), (<<"a", ";">>)>>

(* C9: the TransactionBuilder enforces no transaction state machine: after *)
(* any sequence of begin, add_statement, add_script, commit and cancel     *)
(* calls every call has succeeded and appended exactly one statement, and  *)
(* build() returns those statements in call order joined by single         *)
(* newlines, begin, commit and cancel contributing BEGIN TRANSACTION;      *)
(* COMMIT TRANSACTION; and CANCEL TRANSACTION; and add_script its text     *)
(* verbatim.                                                               *)
Contribution(c) ==
    CASE c.op = "begin" ->
            <<"B", "E", "G", "I", "N", " ", "T", "R", "A", "N", "S", "A", "C", "T", "I", "O", "N", ";">>
      [] c.op = "commit" ->
            <<"C", "O", "M", "M", "I", "T", " ", "T", "R", "A", "N", "S", "A", "C", "T", "I", "O", "N", ";">>
      [] c.op = "cancel" ->
            <<"C", "A", "N", "C", "E", "L", " ", "T", "R", "A", "N", "S", "A", "C", "T", "I", "O", "N", ";">>
      [] c.op = "add_script" -> c.script
      [] c.op = "add_statement" ->
            IF EndsWith(Trim(c.stmt), ";") THEN Trim(c.stmt) ELSE Trim(c.stmt) \o <<";">>

\* C9: no call fails, the statements are the calls' contributions in call
\* order, and build() is their join by newlines
C9_NoTransactionStateMachine ==
    /\ ret.op \in {"new", "chain", "TransactionBuilder::build"} /\ ret.res.ok
    /\ tb.statements = [i \in 1..Len(tlog) |-> Contribution(tlog[i])]
    /\ TransactionBuilder_build(tb)
          = Join([i \in 1..Len(tlog) |-> Contribution(tlog[i])], <<"\n">>)
    /\ ret.op = "TransactionBuilder::build" =>
          ret.res.val = Join([i \in 1..Len(tlog) |-> Contribution(tlog[i])], <<"\n">>)

\* build() has returned a transaction that commits before it begins and
\* both commits and cancels
C9_Witness ==
    /\ ret.op = "TransactionBuilder::build"
    /\ Len(tlog) = 4
    /\ tlog[1].op = "commit" /\ tlog[2].op = "add_script"
    /\ tlog[3].op = "begin" /\ tlog[4].op = "cancel"

(* C10: graph_traverse appends the fragment                                *)
(* <arrow1><fromTable>-><toTable>.*[ AS alias], arrow1 being -> for Out    *)
(* and <- for In, the second arrow -> for both `to` directions, " AS       *)
(* alias" present exactly when an alias is given; build() puts the         *)
(* fragments in call order right after the FROM table, each after one      *)
(* space, with no keyword, before any WHERE clause.                        *)
C10_GraphTraverse ==
    /\ qb.traverse_clauses
          = [i \in 1..Len(hist.graph_traverse) |-> TraverseFragment(hist.graph_traverse[i])]
    /\ (BuildReturned /\ ret.res.ok) =>
          ret.res.val =
              <<"S", "E", "L", "E", "C", "T", " ", "*">> \o LitFrom \o Last(hist.from)
              \o TraversePart(hist) \o WherePart(hist)

\* build() has rendered two fragments before a WHERE clause, the first with
\* an inward second hop and an alias, the second inward first and no alias
C10_Witness ==
    /\ BuildReturned /\ ret.res.ok
    /\ Len(hist.where) > 0 /\ Len(hist.graph_traverse) = 2
    /\ hist.graph_traverse[1].to[1] = "In" /\ hist.graph_traverse[1].alias.some
    /\ hist.graph_traverse[2].from[1] = "In" /\ ~hist.graph_traverse[2].alias.some

(* C11: select("", None) called on a QueryBuilder whose select list is     *)
(* still the default keeps the wildcard: when the one select() call made   *)
(* passed an empty expression and no alias, the select list build()        *)
(* renders is "*" (followed by the graph_expand entries), as in            *)
(* from(t).select("", None).build() = "SELECT * FROM t".                   *)
OnlyEmptySelect ==
    Len(hist.select) = 1 /\ hist.select[1][1] = <<>> /\ ~hist.select[1][2].some

\* C11: after the empty select() alone, build() renders the wildcard
C11_EmptySelectKeepsWildcard ==
    (OnlyEmptySelect /\ BuildReturned /\ ret.res.ok) =>
        ret.res.val = ExpectedQuery(Join(<<(<<"*">>)>> \o hist.graph_expand, <<",", " ">>), hist)

(* C12: embedding takes a snapshot.  A successful let_query,               *)
(* let_query_with_suffix, add_query or add_query_with_suffix appends one   *)
(* statement made of the QueryBuilder's rendering as of that call and      *)
(* leaves the QueryBuilder alone; a QueryBuilder call changes neither the  *)
(* ScriptBuilder nor the TransactionBuilder; and every call on those two   *)
(* keeps the statements they hold, in their order, and adds at most one    *)
(* after them.                                                             *)
IsPrefix(s, t) == Len(s) <= Len(t) /\ SubSeq(t, 1, Len(s)) = s

\* the statement an embedding call c makes of the rendering text
EmbeddedStatement(c, text) ==
    CASE c.op = "let_query" ->
            <<"L", "E", "T", " ", "$">> \o c.name \o <<" ", "=", " ", "(">> \o text \o <<")", ";">>
      [] c.op = "let_query_with_suffix" ->
            <<"L", "E", "T", " ", "$">> \o c.name \o <<" ", "=", " ", "(">> \o text
            \o <<")">> \o c.suffix \o <<";">>
      [] c.op = "add_query" -> text \o <<";">>
      [] c.op = "add_query_with_suffix" -> <<"(">> \o text \o <<")">> \o c.suffix \o <<";">>

C12_AppendOnly ==
    /\ IsPrefix(sb.statements, sb'.statements)
    /\ IsPrefix(tb.statements, tb'.statements)
    /\ Len(sb'.statements) + Len(tb'.statements)
          <= Len(sb.statements) + Len(tb.statements) + 1

C12_QueryCallStep ==
    (qb' # qb \/ hist' # hist) => (sb' = sb /\ tb' = tb)

C12_ScriptEmbedStep ==
    (Len(slog') > Len(slog) /\ Last(slog').op \in EmbedOps /\ ret'.res.ok) =>
        /\ qb' = qb /\ tb' = tb
        /\ sb'.statements =
              Append(sb.statements, EmbeddedStatement(Last(slog'), QueryBuilder_build(qb).val))

C12_TransactionEmbedStep ==
    (Len(tlog') > Len(tlog) /\ Last(tlog').op \in EmbedOps /\ ret'.res.ok) =>
        /\ qb' = qb /\ sb' = sb
        /\ tb'.statements =
              Append(tb.statements, EmbeddedStatement(Last(tlog'), QueryBuilder_build(qb).val))

\* C12: every step appends at most one statement after those held, a
\* QueryBuilder call touches no held statement, and an embedding call
\* appends the rendering of the QueryBuilder as it is at the call
C12_EmbedIsSnapshot ==
    [][/\ C12_AppendOnly
       /\ C12_QueryCallStep
       /\ C12_ScriptEmbedStep
       /\ C12_TransactionEmbedStep]_vars

\* a query was added to the transaction, the QueryBuilder then got a WHERE
\* clause and was added again: the first statement is still the rendering
\* without WHERE, the second one has it
C12_Witness ==
    /\ Len(tlog) = 2 /\ tlog[1].op = "add_query" /\ tlog[2].op = "add_query"
    /\ tlog[1].q # tlog[2].q /\ tlog[2].q = qb
    /\ Len(hist.where) = 1
    /\ tb.statements =
          << <<"S", "E", "L", "E", "C", "T", " ", "*", " ", "F", "R", "O", "M", " ", "t", ";">>,
             <<"S", "E", "L", "E", "C", "T", " ", "*", " ", "F", "R", "O", "M", " ", "t",
               " ", "W", "H", "E", "R", "E", " ", "w", ";">> >>

====
